---- MODULE Spec2Model ----
(***************************************************************************)
(* A model of facely (src/src/handleGetImages.mjs): the image materializer *)
(* getViewableImages, the progress record builder reportProgress, and the  *)
(* staged pipeline facely, run by several invocations on one event loop    *)
(* that share the module-level config object.                              *)
(*                                                                         *)
(* One action is one synchronous segment of JavaScript: the code between   *)
(* two await points runs to completion before any other continuation.      *)
(***************************************************************************)
EXTENDS Integers, Sequences, FiniteSets, TLC

\* ------------------------------------------------------------------ bounds
\* Image widths loadImage may report: 1..MaxWidth.
MaxWidth == 2
\* reportProgress is exercised for total in 1..MaxTotal, stage in 0..total.
MaxTotal == 12
\* Longest overlay name list handed to a direct getViewableImages call
\* (the configured overlayTypes list is always among the lists tried).
MaxList == 2

\* --------------------------------------------------------------- constants
targetSceneWidth == 10
stages == 6

overlayTypes ==
  <<"combinedImage", "keypointsImage", "triangulationImage", "outerRingImage">>

\* JavaScript's null / undefined / "" : every falsy value a slot may hold.
Null == [form |-> "null", body |-> ""]

\* ------------------------------------------------------------- arithmetic
RECURSIVE GCD(_, _)
GCD(a, b) == IF b = 0 THEN a ELSE GCD(b, a % b)

\* The quotient n / d of two positive integers, kept exact as a reduced
\* fraction <<numerator, denominator>>.
Quot(n, d) == LET g == GCD(n, d) IN <<n \div g, d \div g>>

FloorPercent(n, d) == (100 * n) \div d

\* Math.round((n / d) * 100) for n >= 0, d > 0: round half up.  The double
\* arithmetic of the source is exact for every d = 2 * total with total < 20.
RoundPercent(n, d) == (200 * n + d) \div (2 * d)

\* ---------------------------------------------------------- reportProgress
reportProgressUncapped(stage, total, message, complete) ==
  [message |-> message,
   percent |-> RoundPercent(stage * 2 + (IF complete THEN 1 ELSE 0), total * 2),
   stage   |-> <<stage, total>>]

reportProgressAlwaysDone(stage, total, message, complete) ==
  [message |-> message,
   percent |-> IF stage = total THEN 100
               ELSE RoundPercent(stage * 2 + (IF complete THEN 1 ELSE 0), total * 2),
   stage   |-> <<stage, total>>]

reportProgress(stage, total, message, complete) ==
  LET percentage ==
        RoundPercent(stage * 2 + (IF complete THEN 1 ELSE 0), total * 2)
      isComplete == stage = total
  IN  [message |-> message,
       percent |-> IF isComplete THEN (IF complete THEN 100 ELSE 99)
                                 ELSE percentage,
       stage   |-> <<stage, total>>]

\* ------------------------------------------------------------- resources
\* A resource is a string handed to fetch: a reference (blob: or http: URL)
\* or a data URL, base64 or percent-encoded.  body names the bytes behind it.
Ref(b)     == [form |-> "ref", body |-> b]
DataB64(b) == [form |-> "b64", body |-> b]
DataPct(b) == [form |-> "pct", body |-> b]

Truthy(v) == v # Null

\* fetchToDataURL on success: fetch, blob, FileReader.readAsDataURL.  The
\* reader always produces the base64 data URL of the bytes fetched.
fetchToDataURL(resource) == DataB64(resource.body)

\* canvas.toDataURL("image/png")
toDataURL(canvas) == DataB64(canvas.body)
Canvas(b) == [form |-> "canvas", body |-> b]

\* The values external calls may fail with (a rejected fetch, a reader error,
\* a failed model call).
Failures == {"NetworkError", "DecodeError"}
NoError == "none"

\* ------------------------------------------------------ getViewableImages
\* A visualization bundle maps overlay names to resources; a name the bundle
\* lacks reads as undefined, which is Null here.
Lookup(visualizations, overlay) ==
  IF overlay \in DOMAIN visualizations THEN visualizations[overlay] ELSE Null

HasOverlayAlways(visualizations, overlay) == TRUE

\* if (visualizations[overlay])
HasOverlay(visualizations, overlay) == Truthy(Lookup(visualizations, overlay))

\* result.overlays[overlay] = value
PutOverlay(overlays, overlay, value) ==
  [k \in DOMAIN overlays \cup {overlay} |->
     IF k = overlay THEN value ELSE overlays[k]]

EmptyOverlays == [k \in {} |-> Null]

\* The activation record of one getViewableImages call.  status is where the
\* call stands: "idle" (not called), "fetching" (suspended in fetchToDataURL
\* on `pending`, whose data URL goes to `slot`), "returned" or "rejected".
\* fetched lists the resources handed to fetch so far, in order.
IdleFrame ==
  [status |-> "idle", slot |-> "", pending |-> Null, i |-> 0,
   depthMapImage |-> Null, visualizations |-> EmptyOverlays,
   overlayTypes |-> <<>>,
   result |-> [baseImage |-> Null, displacementMap |-> Null,
               overlays |-> EmptyOverlays],
   fetched |-> <<>>, error |-> NoError]

\* fetchToDataURL(resource) up to its first await: fetch(resource) is issued.
GviAwaitFetch(f, slot, resource, i) ==
  [f EXCEPT !.status = "fetching", !.slot = slot, !.pending = resource,
            !.i = i, !.fetched = Append(@, resource)]

\* The overlay loop from index i on: skips names with no value in the
\* bundle, suspends on the first that has one, returns result at the end.
RECURSIVE GviLoop(_, _)
GviLoop(f, i) ==
  IF i > Len(f.overlayTypes)
    THEN [f EXCEPT !.status = "returned", !.slot = "", !.pending = Null, !.i = i]
    ELSE LET overlay == f.overlayTypes[i] IN
         IF HasOverlay(f.visualizations, overlay)
           THEN GviAwaitFetch(f, overlay, Lookup(f.visualizations, overlay), i)
           ELSE GviLoop(f, i + 1)

\* Step 2: the depth canvas becomes a data URL, assigned directly; then the
\* overlay loop starts.
GviAfterBase(f) ==
  IF Truthy(f.depthMapImage)
    THEN GviLoop([f EXCEPT !.result.displacementMap = toDataURL(f.depthMapImage)], 1)
    ELSE GviLoop(f, 1)

\* The call itself, run to its first await (or to its return when nothing
\* is to be fetched).
GviEnter(imageFile, imageUrl, depthMapImage, visualizations, names) ==
  LET f == [IdleFrame EXCEPT !.depthMapImage = depthMapImage,
                             !.visualizations = visualizations,
                             !.overlayTypes = names]
  IN  IF imageFile /\ Truthy(imageUrl)
        THEN GviAwaitFetch(f, "baseImage", imageUrl, 0)
        ELSE GviAfterBase(f)

\* The pending fetchToDataURL resolves: its data URL is stored and the
\* function runs on to its next await or its return.  The three awaits of
\* fetchToDataURL (fetch, blob, reader) touch no other state and are one step.
GviFetchResolved(f) ==
  LET url == fetchToDataURL(f.pending) IN
  IF f.slot = "baseImage"
    THEN GviAfterBase([f EXCEPT !.result.baseImage = url])
    ELSE GviLoop([f EXCEPT !.result.overlays = PutOverlay(@, f.slot, url)],
                 f.i + 1)

\* The pending fetchToDataURL rejects: no handler, the call rejects with it.
GviFetchRejected(f, err) ==
  [f EXCEPT !.status = "rejected", !.error = err]

\* ----------------------------------------------------------------- state
VARIABLES
  config,  \* the module-level config object, shared by every invocation
  inv,     \* inv[c]: the activation record of facely invocation c
  gv,      \* the activation record of a direct getViewableImages call
  rp       \* the last reportProgress call: its arguments and its result

vars == <<config, inv, gv, rp>>

config0 ==
  [pointSize |-> 3, pointColor |-> "purple", outerRingColor |-> "orange",
   outerRingWidth |-> 3, triangulationColor |-> "cyan",
   triangulationWidth |-> 2, invertDepth |-> TRUE, scaleFactor |-> <<1, 1>>,
   baseElevation |-> 5, minDepth |-> 0, maxDepth |-> 1,
   outputDepthRange |-> <<0, 1>>, invertDepthMap |-> FALSE,
   depthMapFormat |-> "image/png"]

\* Two facely invocations are in flight on the one event loop.
Calls == {1, 2}
Widths == 1..MaxWidth

\* facely has not been called yet.
IdleInvocation ==
  [pc |-> "idle", progress |-> FALSE, img |-> 0,
   visualizations |-> EmptyOverlays, depth |-> Null, gvi |-> IdleFrame,
   trace |-> <<>>, error |-> NoError, meshConfig |-> <<>>]

NoReport == [called |-> FALSE]

InitIdle ==
  /\ config = config0
  /\ inv = [c \in Calls |-> IdleInvocation]
  /\ gv = IdleFrame
  /\ rp = NoReport

\* ------------------------------------- reportProgress, called on its own
ReportProgressCall ==
  /\ \E total \in 1..MaxTotal, stage \in 0..MaxTotal, complete \in BOOLEAN :
       /\ stage <= total
       /\ rp' = [called |-> TRUE, stage |-> stage, total |-> total,
                 complete |-> complete,
                 out |-> reportProgress(stage, total, "message", complete)]
  /\ UNCHANGED <<config, inv, gv>>

SpecProgress == InitIdle /\ [][ReportProgressCall]_vars

\* ---------------------------------- getViewableImages, called on its own
OverlayNames == {overlayTypes[k] : k \in DOMAIN overlayTypes}

\* What a bundle may hold under a name: nothing, a reference, a data URL.
OverlayValues == {Null, Ref("overlay"), DataB64("overlay")}
Bundles == [OverlayNames -> OverlayValues]

ImageUrls == {Null, Ref("portrait"), DataB64("portrait"), DataPct("portrait")}
DepthMaps == {Null, Canvas("depth")}

RECURSIVE SeqsUpTo(_, _)
SeqsUpTo(S, n) ==
  IF n = 0 THEN {<<>>}
  ELSE LET shorter == SeqsUpTo(S, n - 1) IN
       shorter \cup {Append(q, x) : q \in shorter, x \in S}

NameLists == {overlayTypes} \cup SeqsUpTo(OverlayNames, MaxList)

GetViewableImagesCall ==
  /\ gv.status = "idle"
  /\ \E imageFile \in BOOLEAN, imageUrl \in ImageUrls, depthMapImage \in DepthMaps,
        visualizations \in Bundles, names \in NameLists :
       gv' = GviEnter(imageFile, imageUrl, depthMapImage, visualizations, names)
  /\ UNCHANGED <<config, inv, rp>>

GetViewableImagesFetchResolved ==
  /\ gv.status = "fetching"
  /\ gv' = GviFetchResolved(gv)
  /\ UNCHANGED <<config, inv, rp>>

GetViewableImagesFetchRejected ==
  /\ gv.status = "fetching"
  /\ \E err \in Failures : gv' = GviFetchRejected(gv, err)
  /\ UNCHANGED <<config, inv, rp>>

NextImages ==
  \/ GetViewableImagesCall
  \/ GetViewableImagesFetchResolved
  \/ GetViewableImagesFetchRejected

SpecImages == InitIdle /\ [][NextImages]_vars

\* ------------------------------------------------------------------ facely
\* What an invocation's trace records, in program order: each report handed
\* to the progress callback (with the `complete` argument it was built
\* from), each call of an external function that a stage rests on (with the
\* config object when the call is handed it: the object is shared, so this
\* is its content at the moment of the call), each settlement of such a
\* call, and each fetch issued inside getViewableImages.
ProgressEvent(stage, message, complete) ==
  [type |-> "progress", complete |-> complete,
   report |-> reportProgress(stage, stages, message, complete)]
CallEvent(fn, args)   == [type |-> "call", fn |-> fn, args |-> args]
ResolvedEvent(fn)     == [type |-> "settled", fn |-> fn, ok |-> TRUE,
                          error |-> NoError]
RejectedEvent(fn, err) == [type |-> "settled", fn |-> fn, ok |-> FALSE,
                           error |-> err]
FetchEvent(resource)  == [type |-> "fetch", resource |-> resource]

\* The fetches frame g issued beyond the first n, as trace events.
FetchEventsFrom(g, n) ==
  [k \in 1..(Len(g.fetched) - n) |-> FetchEvent(g.fetched[n + k])]

\* URL.createObjectURL(imageFile): a blob: reference to the uploaded bytes.
createObjectURL == Ref("portrait")

\* What handlePredictions may resolve with: references to the overlays named
\* by a prefix of overlayTypes (none of them up to all four).
PredictionBundles ==
  {[n \in OverlayNames |->
      IF \E j \in 1..k : overlayTypes[j] = n THEN v ELSE Null] :
     k \in 0..Len(overlayTypes), v \in {Ref("overlay")}}

ReviewReportsOnce ==
  <<ProgressEvent(stages, "process complete!", TRUE)>>

ReviewReportsDeferred == <<>>

\* Lines 185-186: the trailing review pair, reported as stage 6 of 6.
ReviewReports ==
  <<ProgressEvent(6, "reviewing process...", FALSE),
    ProgressEvent(6, "process complete!", TRUE)>>

RejectWithGeneric(r, err) == [r EXCEPT !.pc = "rejected", !.error = "Error"]

\* An uncaught failure inside the async function: the promise facely
\* returned rejects with that very value.
RejectWith(r, err) == [r EXCEPT !.pc = "rejected", !.error = err]

\* progress(report) where progress is undefined
NotAFunction == "TypeError"

\* Lines 132-154: the call, up to `await loadImage(imageUrl)`.  With no
\* callback the first progress(...) throws before anything else runs.
FacelyCall(c) ==
  /\ inv[c].pc = "idle"
  /\ \E progress \in BOOLEAN :
       inv' = [inv EXCEPT ![c] =
         IF ~progress
           THEN RejectWith([@ EXCEPT !.progress = FALSE], NotAFunction)
           ELSE [@ EXCEPT
                  !.pc = "loadImage",
                  !.progress = TRUE,
                  !.trace = <<ProgressEvent(0, "setting up...", FALSE),
                              ProgressEvent(0, "setting up complete!", TRUE),
                              ProgressEvent(1, "uploading...", FALSE),
                              ProgressEvent(1, "uploading complete!", TRUE),
                              ProgressEvent(2, "generating preview...", FALSE),
                              CallEvent("loadImage", <<>>)>>]]
  /\ UNCHANGED <<config, gv, rp>>

\* Lines 154-163: loadImage resolved; the shared config gets this image's
\* scale factor; up to `await import(...)`.
LoadImageResolved(c) ==
  /\ inv[c].pc = "loadImage"
  /\ \E width \in Widths :
       /\ config' = [config EXCEPT
                       !.scaleFactor = Quot(targetSceneWidth, width)]
       /\ inv' = [inv EXCEPT ![c] = [@ EXCEPT
                    !.pc = "import",
                    !.img = width,
                    !.trace = @ \o
                      <<ResolvedEvent("loadImage"),
                        ProgressEvent(2, "preview generated!", TRUE),
                        ProgressEvent(3, "making predictions...", FALSE),
                        CallEvent("import", <<>>)>>]]
  /\ UNCHANGED <<gv, rp>>

LoadImageRejected(c) ==
  /\ inv[c].pc = "loadImage"
  /\ \E err \in Failures :
       inv' = [inv EXCEPT ![c] =
         RejectWith([@ EXCEPT !.trace = Append(@, RejectedEvent("loadImage", err))],
                    err)]
  /\ UNCHANGED <<config, gv, rp>>

\* Lines 163-164: the dynamic import resolved; handlePredictions is called
\* with the shared config.
ImportResolved(c) ==
  /\ inv[c].pc = "import"
  /\ inv' = [inv EXCEPT ![c] = [@ EXCEPT
               !.pc = "handlePredictions",
               !.trace = @ \o <<ResolvedEvent("import"),
                                CallEvent("handlePredictions", <<config>>)>>]]
  /\ UNCHANGED <<config, gv, rp>>

ImportRejected(c) ==
  /\ inv[c].pc = "import"
  /\ \E err \in Failures :
       inv' = [inv EXCEPT ![c] =
         RejectWith([@ EXCEPT !.trace = Append(@, RejectedEvent("import", err))],
                    err)]
  /\ UNCHANGED <<config, gv, rp>>

\* Lines 164-182: handlePredictions resolved; generateUVTexturedFace runs
\* synchronously and may throw; up to `await handleDepthEstimation(...)`.
HandlePredictionsResolved(c) ==
  /\ inv[c].pc = "handlePredictions"
  /\ \E visualizations \in PredictionBundles, uv \in {NoError} \cup Failures :
       LET before == inv[c].trace \o
             <<ResolvedEvent("handlePredictions"),
               ProgressEvent(3, "predictions complete!", TRUE),
               ProgressEvent(4, "generating 3D objects...", FALSE),
               CallEvent("generateUVTexturedFace", <<config>>)>>
       IN inv' = [inv EXCEPT ![c] =
            IF uv # NoError
              THEN RejectWith(
                     [@ EXCEPT !.visualizations = visualizations,
                               !.trace = Append(before,
                                  RejectedEvent("generateUVTexturedFace", uv))],
                     uv)
              ELSE [@ EXCEPT
                     !.pc = "handleDepthEstimation",
                     !.visualizations = visualizations,
                     !.trace = before \o
                       <<ResolvedEvent("generateUVTexturedFace"),
                         ProgressEvent(4, "3D objects generated!", TRUE),
                         ProgressEvent(5, "starting depth estimation...", FALSE),
                         CallEvent("handleDepthEstimation", <<config>>)>>]]
  /\ UNCHANGED <<config, gv, rp>>

HandlePredictionsRejected(c) ==
  /\ inv[c].pc = "handlePredictions"
  /\ \E err \in Failures :
       inv' = [inv EXCEPT ![c] =
         RejectWith([@ EXCEPT !.trace =
                       Append(@, RejectedEvent("handlePredictions", err))],
                    err)]
  /\ UNCHANGED <<config, gv, rp>>

\* Lines 182-196: handleDepthEstimation resolved; the last three reports;
\* getViewableImages is called and runs to its first await.
HandleDepthEstimationResolved(c) ==
  /\ inv[c].pc = "handleDepthEstimation"
  /\ LET depth == Canvas("depth")
         g == GviEnter(TRUE, createObjectURL, depth,
                       inv[c].visualizations, overlayTypes)
     IN inv' = [inv EXCEPT ![c] = [@ EXCEPT
                  !.pc = "getViewableImages",
                  !.depth = depth,
                  !.gvi = g,
                  !.trace = @ \o
                    <<ResolvedEvent("handleDepthEstimation"),
                      ProgressEvent(5, "depth estimation complete!", TRUE)>>
                    \o ReviewReports
                    \o <<CallEvent("getViewableImages", <<>>)>>
                    \o FetchEventsFrom(g, 0)]]
  /\ UNCHANGED <<config, gv, rp>>

HandleDepthEstimationRejected(c) ==
  /\ inv[c].pc = "handleDepthEstimation"
  /\ \E err \in Failures :
       inv' = [inv EXCEPT ![c] =
         RejectWith([@ EXCEPT !.trace =
                       Append(@, RejectedEvent("handleDepthEstimation", err))],
                    err)]
  /\ UNCHANGED <<config, gv, rp>>

\* A fetchToDataURL inside this invocation's getViewableImages resolves.
FetchResolved(c) ==
  /\ inv[c].pc = "getViewableImages"
  /\ inv[c].gvi.status = "fetching"
  /\ LET g == GviFetchResolved(inv[c].gvi) IN
     inv' = [inv EXCEPT ![c] = [@ EXCEPT
               !.gvi = g,
               !.trace = @ \o FetchEventsFrom(g, Len(inv[c].gvi.fetched))]]
  /\ UNCHANGED <<config, gv, rp>>

FetchRejected(c) ==
  /\ inv[c].pc = "getViewableImages"
  /\ inv[c].gvi.status = "fetching"
  /\ \E err \in Failures :
       inv' = [inv EXCEPT ![c] = [@ EXCEPT !.gvi = GviFetchRejected(@, err)]]
  /\ UNCHANGED <<config, gv, rp>>

\* Lines 190-241: getViewableImages returned; the three get*Mesh calls read
\* the shared config; facely resolves with the Pipeline Result.
GetViewableImagesReturned(c) ==
  /\ inv[c].pc = "getViewableImages"
  /\ inv[c].gvi.status = "returned"
  /\ inv' = [inv EXCEPT ![c] = [@ EXCEPT
               !.pc = "resolved",
               !.meshConfig = <<config>>,
               !.trace = @ \o
                 <<ResolvedEvent("getViewableImages"),
                   CallEvent("getVerticesMesh", <<config>>),
                   CallEvent("getEdgesMesh", <<config>>),
                   CallEvent("getFacesMesh", <<config>>)>>]]
  /\ UNCHANGED <<config, gv, rp>>

\* Line 190: getViewableImages rejected; facely rejects with its failure.
GetViewableImagesRejected(c) ==
  /\ inv[c].pc = "getViewableImages"
  /\ inv[c].gvi.status = "rejected"
  /\ inv' = [inv EXCEPT ![c] =
       RejectWith([@ EXCEPT !.trace =
                     Append(@, RejectedEvent("getViewableImages", inv[c].gvi.error))],
                  inv[c].gvi.error)]
  /\ UNCHANGED <<config, gv, rp>>

Next ==
  \E c \in Calls :
    \/ FacelyCall(c)
    \/ LoadImageResolved(c)
    \/ LoadImageRejected(c)
    \/ ImportResolved(c)
    \/ ImportRejected(c)
    \/ HandlePredictionsResolved(c)
    \/ HandlePredictionsRejected(c)
    \/ HandleDepthEstimationResolved(c)
    \/ HandleDepthEstimationRejected(c)
    \/ FetchResolved(c)
    \/ FetchRejected(c)
    \/ GetViewableImagesReturned(c)
    \/ GetViewableImagesRejected(c)

Spec == InitIdle /\ [][Next]_vars

\* ================================================================ claims
IsProgress(e) == e.type = "progress"
IsCall(e, fn) == e.type = "call" /\ e.fn = fn
IsSettled(e, fn) == e.type = "settled" /\ e.fn = fn
IsFailure(e) == e.type = "settled" /\ ~e.ok
IsDone(e) == e.type = "progress" /\ e.report.percent = 100
ReportAt(e, stage, complete) ==
  IsProgress(e) /\ e.report.stage[1] = stage /\ e.complete = complete

\* C1: called with no progress callback, facely does not fail unless an
\* external call failed.
C1_CallbackOptional ==
  \A c \in Calls :
    (inv[c].pc = "rejected" /\ ~inv[c].progress)
      => \E k \in DOMAIN inv[c].trace : IsFailure(inv[c].trace[k])

\* C2: a failed external call is the last thing an invocation does: no
\* report, call or fetch follows it, no result is delivered, and facely
\* rejects with the very value the call failed with (a failed fetch inside
\* getViewableImages included).
C2_FailFast ==
  \A c \in Calls :
    LET t == inv[c].trace IN
    /\ \A k \in DOMAIN t :
         IsFailure(t[k]) =>
           /\ k = Len(t)
           /\ inv[c].pc = "rejected"
           /\ inv[c].error = t[k].error
           /\ inv[c].error \in Failures
           /\ inv[c].meshConfig = <<>>
    /\ inv[c].gvi.status = "rejected" =>
         /\ inv[c].pc \in {"getViewableImages", "rejected"}
         /\ inv[c].gvi.error \in Failures
         /\ t[Len(t)].type \in {"fetch", "settled"}
         /\ inv[c].pc = "rejected" =>
              /\ IsFailure(t[Len(t)])
              /\ inv[c].error = inv[c].gvi.error
    /\ (inv[c].pc = "rejected" /\ inv[c].progress) => IsFailure(t[Len(t)])

C2_Witness ==
  \E c \in Calls :
    LET t == inv[c].trace IN
    /\ inv[c].pc = "rejected"
    /\ t # <<>>
    /\ IsSettled(t[Len(t)], "handlePredictions")
    /\ inv[c].error = "DecodeError"

\* C3: every config an invocation hands to an external function carries the
\* scale factor of that invocation's own image.
C3_OwnScaleFactor ==
  \A c \in Calls :
    \A k \in DOMAIN inv[c].trace :
      LET e == inv[c].trace[k] IN
      (e.type = "call" /\ e.args # <<>>)
        => e.args[1].scaleFactor = Quot(targetSceneWidth, inv[c].img)

\* C4: what an invocation has reported and done so far is always an initial
\* part of one fixed order: started and complete for stages 0..5, the work
\* of stages 2..5 called after the stage's started report and resolved
\* before its complete report, then the review pair; a resolved run has
\* made exactly 14 reports.  (A failed call ends the order where it fails.)
ReportKey(stage, complete) ==
  [type |-> "progress", stage |-> stage, fn |-> "", flag |-> complete]
WorkKey(type, fn, ok) ==
  [type |-> type, stage |-> 0, fn |-> fn, flag |-> ok]

StageOrder(stage, fn) ==
  <<ReportKey(stage, FALSE), WorkKey("call", fn, TRUE),
    WorkKey("settled", fn, TRUE), ReportKey(stage, TRUE)>>

ExpectedOrder ==
  <<ReportKey(0, FALSE), ReportKey(0, TRUE),
    ReportKey(1, FALSE), ReportKey(1, TRUE)>>
  \o StageOrder(2, "loadImage")
  \o StageOrder(3, "handlePredictions")
  \o StageOrder(4, "generateUVTexturedFace")
  \o StageOrder(5, "handleDepthEstimation")
  \o <<ReportKey(6, FALSE), ReportKey(6, TRUE)>>

StageWorkFns ==
  {"loadImage", "handlePredictions", "generateUVTexturedFace",
   "handleDepthEstimation"}

IsStageEvent(e) ==
  \/ IsProgress(e)
  \/ e.type \in {"call", "settled"} /\ e.fn \in StageWorkFns

KeyOf(e) ==
  IF IsProgress(e) THEN ReportKey(e.report.stage[1], e.complete)
  ELSE IF e.type = "call" THEN WorkKey("call", e.fn, TRUE)
  ELSE WorkKey("settled", e.fn, e.ok)

C4_ReportsAndOrder ==
  \A c \in Calls :
    LET t == SelectSeq(inv[c].trace, IsStageEvent)
        n == Len(t)
    IN /\ n <= Len(ExpectedOrder)
       /\ \A k \in 1..n :
            \/ KeyOf(t[k]) = ExpectedOrder[k]
            \/ k = n /\ IsFailure(t[k])
                     /\ KeyOf(t[k]) = [ExpectedOrder[k] EXCEPT !.flag = FALSE]
       /\ inv[c].pc = "resolved" =>
            /\ n = Len(ExpectedOrder)
            /\ Len(SelectSeq(inv[c].trace, IsProgress)) = 14

C4_Witness ==
  \E c \in Calls :
    /\ inv[c].pc = "resolved"
    /\ Len(SelectSeq(inv[c].trace, IsProgress)) = 14

\* C5: reports come in non-decreasing stage order; the complete report of
\* the final stage (stage 6 of 6) carries 100 and every other report at
\* most 99.
C5_OrderAndPercent ==
  \A c \in Calls :
    LET r == SelectSeq(inv[c].trace, IsProgress) IN
    /\ \A k \in 1..(Len(r) - 1) :
         r[k].report.stage[1] <= r[k + 1].report.stage[1]
    /\ \A k \in DOMAIN r :
         IF r[k].report.stage[1] = stages /\ r[k].complete
           THEN r[k].report.percent = 100 /\ k = Len(r)
           ELSE r[k].report.percent <= 99
    /\ inv[c].pc = "resolved" => r[Len(r)].report.percent = 100

C5_Witness ==
  \E c \in Calls :
    \E k \in DOMAIN inv[c].trace :
      /\ IsDone(inv[c].trace[k])
      /\ inv[c].trace[k].report.stage = <<6, 6>>

\* C8 as stated: the complete report of stage 5 of 6 carries 99.
C8_Stage5CompleteIs99 ==
  \A c \in Calls :
    \A k \in DOMAIN inv[c].trace :
      ReportAt(inv[c].trace[k], stages - 1, TRUE)
        => inv[c].trace[k].report.percent = 99

\* C8 amended: the complete report of stage 5 of 6 carries 92; the report
\* carrying 99 is the started report of the review stage 6.
C8_Stage5CompleteIs92 ==
  \A c \in Calls :
    \A k \in DOMAIN inv[c].trace :
      LET e == inv[c].trace[k] IN
      /\ ReportAt(e, stages - 1, TRUE) => e.report.percent = 92
      /\ (IsProgress(e) /\ e.report.percent = 99)
           => ReportAt(e, stages, FALSE)

C8_Witness ==
  \E c \in Calls :
    \E k \in DOMAIN inv[c].trace :
      /\ ReportAt(inv[c].trace[k], stages - 1, TRUE)
      /\ inv[c].trace[k].report.message = "depth estimation complete!"

\* C10: every fetch of getViewableImages is issued after the 100% report,
\* and when such a fetch fails facely rejects with the 100% report already
\* delivered.
C10_DoneBeforeImages ==
  \A c \in Calls :
    LET t == inv[c].trace
        done == {k \in DOMAIN t : IsDone(t[k])}
    IN /\ \A k \in DOMAIN t :
            (t[k].type = "fetch" \/ IsCall(t[k], "getViewableImages"))
              => \E j \in done : j < k
       /\ Len(inv[c].gvi.fetched) = Cardinality({k \in DOMAIN t : t[k].type = "fetch"})
       /\ inv[c].gvi.status = "rejected" => done # {}
       /\ (inv[c].pc = "rejected" /\ inv[c].gvi.status = "rejected")
            => /\ inv[c].error = inv[c].gvi.error
               /\ IsSettled(t[Len(t)], "getViewableImages")

C10_Witness ==
  \E c \in Calls :
    /\ inv[c].pc = "rejected"
    /\ inv[c].gvi.status = "rejected"
    /\ \E k \in DOMAIN inv[c].trace : IsDone(inv[c].trace[k])

\* C6: the keys of the overlays map are names of the requested list that
\* have a value in the bundle, each holding the data URL of that value; a
\* returned call holds exactly those names, so all four for the configured
\* list and a bundle that has all four.
Requested(f) ==
  {f.overlayTypes[k] : k \in DOMAIN f.overlayTypes}
Available(f) ==
  {n \in Requested(f) : Lookup(f.visualizations, n) # Null}

C6_OverlayKeys ==
  LET keys == DOMAIN gv.result.overlays IN
  /\ keys \subseteq Available(gv)
  /\ \A n \in keys :
       gv.result.overlays[n] = DataB64(Lookup(gv.visualizations, n).body)
  /\ gv.status = "returned" =>
       /\ keys = Available(gv)
       /\ (gv.overlayTypes = overlayTypes
           /\ \A n \in OverlayNames : gv.visualizations[n] # Null)
            => Cardinality(keys) = 4

C6_Witness ==
  /\ gv.status = "returned"
  /\ gv.overlayTypes = overlayTypes
  /\ gv.visualizations["keypointsImage"] = Null
  /\ DOMAIN gv.result.overlays =
       {"combinedImage", "triangulationImage", "outerRingImage"}

\* C7: reportProgress returns round(((stage*2 + flag) / (total*2)) * 100)
\* below the last stage, and 99 or 100 at stage = total.
C7_Percent ==
  rp.called =>
    LET n == rp.stage * 2 + (IF rp.complete THEN 1 ELSE 0)
        d == rp.total * 2
        \* the nearest integer to 100*n/d, halves up
        nearest == CHOOSE q \in 0..101 :
                     /\ 2 * d * q <= 200 * n + d
                     /\ 200 * n + d < 2 * d * (q + 1)
    IN /\ rp.stage < rp.total => rp.out.percent = nearest
       /\ rp.stage = rp.total =>
            rp.out.percent = (IF rp.complete THEN 100 ELSE 99)
       /\ rp.out.stage = <<rp.stage, rp.total>>

C7_Witness ==
  /\ rp.called
  /\ rp.stage = 5 /\ rp.total = 6 /\ rp.complete
  /\ rp.out.percent = 92

\* C9: getViewableImages hands fetch nothing but references, and a data URL
\* it is given reaches the result unchanged.
C9_FetchOnlyReferences ==
  /\ \A k \in DOMAIN gv.fetched : gv.fetched[k].form = "ref"
  /\ \A n \in DOMAIN gv.result.overlays :
       Lookup(gv.visualizations, n).form \in {"b64", "pct"}
         => gv.result.overlays[n] = Lookup(gv.visualizations, n)

====
